---- MODULE Spec2Model ----
(***************************************************************************)
(* A model of Week3/exercise_script.py: the legend handle generator        *)
(* generate_handles and the module-level script that loads two vector      *)
(* datasets, reprojects them, joins wards to counties, aggregates the      *)
(* population column and composes a map figure.                            *)
(*                                                                         *)
(* Geometries are sets of integer coordinates on a line.  A coordinate     *)
(* reference system shifts the ground position of a cell by a fixed        *)
(* amount, so the same polygon has different coordinates in different      *)
(* systems and a spatial predicate evaluated on raw coordinates is only    *)
(* meaningful when both operands are in the same system.                   *)
(***************************************************************************)
EXTENDS Integers, Sequences, FiniteSets, TLC

VARIABLES
    pc,             \* the statement of the script that executes next
    log,            \* the statements executed so far, in order (history)
    error,          \* the uncaught exception, as [kind, stage], or NoError
    data_files,     \* the two datasets on disk
    counties,       \* module variable counties
    wards,          \* module variable wards
    join,           \* module variable join
    total,          \* value of join['Population'].sum()            (line 44)
    by_county,      \* value of the groupby CountyName sum          (line 46)
    by_county_ward, \* value of the groupby CountyName, Ward sum    (line 48)
    myCRS,          \* module variable myCRS
    fig,            \* the figure with its axes, colorbar axes, layers, legend
    county_outlines,\* module variable county_outlines
    county_handles, \* module variable county_handles
    call,           \* arguments of a direct call of generate_handles
    ret             \* outcome of that call

vars == <<pc, log, error, data_files, counties, wards, join, total, by_county,
          by_county_ward, myCRS, fig, county_outlines, county_handles, call, ret>>

pipeVars == <<pc, log, error, data_files, counties, wards, join, total, by_county,
              by_county_ward, myCRS, fig, county_outlines, county_handles>>

----------------------------------------------------------------------------
(* Bounds of the model *)

MaxLabels == 3
MaxColors == 2
MaxWards == 2
MaxCounties == 2

----------------------------------------------------------------------------
(* Generic helpers *)

None == "None"

SeqsUpTo(S, n) == UNION {[1..k -> S] : k \in 0..n}

RECURSIVE SumValues(_)
SumValues(f) ==
    IF DOMAIN f = {} THEN 0
    ELSE LET k == CHOOSE x \in DOMAIN f : TRUE
         IN  f[k] + SumValues([x \in DOMAIN f \ {k} |-> f[x]])

IndexOf(s, x) == CHOOSE i \in 1..Len(s) : s[i] = x

Count(s, x) == Cardinality({i \in 1..Len(s) : s[i] = x})

----------------------------------------------------------------------------
(* generate_handles, lines 10-15 *)

DefaultEdge == "k"

DefaultAlpha == 1

\* mpatches.Rectangle((0, 0), 1, 1, facecolor=..., edgecolor=..., alpha=...)
RectangleEdgeFromFace(face, edge, alpha) ==
    [facecolor |-> face, edgecolor |-> face, alpha |-> alpha]

Rectangle(face, edge, alpha) ==
    [facecolor |-> face, edgecolor |-> edge, alpha |-> alpha]

\* the index expression i % lc of line 14 (i and lc are 0-based Python values)
ColorIndexClamped(i, lc) == IF i < lc THEN i ELSE lc - 1

ColorIndex(i, lc) == i % lc

\* the for loop of lines 13-14, from iteration i on; i % 0 raises
RECURSIVE HandlesLoop(_, _, _, _, _, _)
HandlesLoop(labels, colors, edge, alpha, i, handles) ==
    LET lc == Len(colors) IN
    IF i >= Len(labels) THEN [raised |-> None, handles |-> handles]
    ELSE IF lc = 0 THEN [raised |-> "ZeroDivisionError", handles |-> <<>>]
    ELSE HandlesLoop(labels, colors, edge, alpha, i + 1,
             Append(handles,
                    Rectangle(colors[ColorIndex(i, lc) + 1], edge, alpha)))

generate_handles_checked(labels, colors, edge, alpha) ==
    IF Len(colors) = 0 THEN [raised |-> "ValueError", handles |-> <<>>]
    ELSE HandlesLoop(labels, colors, edge, alpha, 0, <<>>)

generate_handles(labels, colors, edge, alpha) ==
    HandlesLoop(labels, colors, edge, alpha, 0, <<>>)

\* a call site: a.kw holds the keyword arguments given; those left out take
\* the defaults of line 10
CallGenerateHandles(a) ==
    generate_handles(a.labels, a.colors,
                     IF "edge" \in DOMAIN a.kw THEN a.kw.edge ELSE DefaultEdge,
                     IF "alpha" \in DOMAIN a.kw THEN a.kw.alpha ELSE DefaultAlpha)

----------------------------------------------------------------------------
(* Coordinate reference systems and geometries *)

WGS84 == "EPSG:4326"
IrishGrid == "EPSG:29902"
ITM == "EPSG:2157"
UTM29 == "EPSG:32629"

\* where the ground origin lies in the coordinates of each system
Off(crs) ==
    CASE crs = WGS84 -> 0
      [] crs = IrishGrid -> 10
      [] crs = ITM -> 20
      [] crs = UTM29 -> 30
      [] OTHER -> 0

Transform(x, from, to) == x - Off(from) + Off(to)

Intersects(g, h) == g \cap h # {}

Unbound == [bound |-> FALSE, crs |-> None, rows |-> <<>>]

\* GeoDataFrame.to_crs(epsg=...): a frame without a CRS cannot be transformed
ToCrsForced(gdf, target) ==
    IF gdf.crs = None THEN [raised |-> "ValueError", value |-> Unbound]
    ELSE [raised |-> None,
          value |-> [bound |-> TRUE, crs |-> target,
                     rows |-> [i \in DOMAIN gdf.rows |->
                         [gdf.rows[i] EXCEPT !.geometry =
                             {x - Off(WGS84) + Off(target) : x \in @}]]]]

ToCrsRetag(gdf, target) ==
    IF gdf.crs = None THEN [raised |-> "ValueError", value |-> Unbound]
    ELSE [raised |-> None, value |-> [gdf EXCEPT !.crs = target]]

ToCrs(gdf, target) ==
    IF gdf.crs = None THEN [raised |-> "ValueError", value |-> Unbound]
    ELSE IF gdf.crs = target THEN [raised |-> None, value |-> gdf]
    ELSE [raised |-> None,
          value |-> [bound |-> TRUE, crs |-> target,
                     rows |-> [i \in DOMAIN gdf.rows |->
                         [gdf.rows[i] EXCEPT !.geometry =
                             {Transform(x, gdf.crs, target) : x \in @}]]]]

----------------------------------------------------------------------------
(* The libraries' operations as the script uses them *)

\* gpd.read_file(path), lines 27-28
ReadFile(f) ==
    IF ~f.exists THEN [raised |-> "DriverError", value |-> Unbound]
    ELSE [raised |-> None,
          value |-> [bound |-> TRUE, crs |-> f.crs, rows |-> f.rows]]

JoinRow(left, i, right, j) ==
    [index |-> i - 1,
     Ward |-> left.rows[i].Ward,
     Population |-> left.rows[i].Population,
     geometry |-> left.rows[i].geometry,
     index_right |-> j - 1,
     CountyName |-> right.rows[j].CountyName]

\* the rows of the right frame that match row i of the left one, in right order
RECURSIVE MatchesFrom(_, _, _, _)
MatchesFrom(left, i, right, j) ==
    IF j > Len(right.rows) THEN <<>>
    ELSE (IF Intersects(left.rows[i].geometry, right.rows[j].geometry)
          THEN <<JoinRow(left, i, right, j)>> ELSE <<>>)
         \o MatchesFrom(left, i, right, j + 1)

UnmatchedRow(left, i) ==
    [index |-> i - 1,
     Ward |-> left.rows[i].Ward,
     Population |-> left.rows[i].Population,
     geometry |-> left.rows[i].geometry,
     index_right |-> -1,
     CountyName |-> None]

RECURSIVE LeftJoinFrom(_, _, _)
LeftJoinFrom(left, right, i) ==
    IF i > Len(left.rows) THEN <<>>
    ELSE (IF MatchesFrom(left, i, right, 1) = <<>> THEN <<UnmatchedRow(left, i)>>
          ELSE MatchesFrom(left, i, right, 1))
         \o LeftJoinFrom(left, right, i + 1)

RECURSIVE InnerJoinFrom(_, _, _)
InnerJoinFrom(left, right, i) ==
    IF i > Len(left.rows) THEN <<>>
    ELSE MatchesFrom(left, i, right, 1) \o InnerJoinFrom(left, right, i + 1)

SJoinLeft(left, right) ==
    [bound |-> TRUE, crs |-> left.crs, rows |-> LeftJoinFrom(left, right, 1)]

\* gpd.sjoin(wards, counties, how='inner', lsuffix='left', rsuffix='right'):
\* the predicate is evaluated on the coordinates as they are
SJoin(left, right) ==
    [bound |-> TRUE, crs |-> left.crs, rows |-> InnerJoinFrom(left, right, 1)]

RECURSIVE SumPopulation(_, _)
SumPopulation(rows, S) ==
    IF S = {} THEN 0
    ELSE LET i == CHOOSE x \in S : TRUE
         IN  rows[i].Population + SumPopulation(rows, S \ {i})

\* join['Population'].sum()
PopulationSum(rows) == SumPopulation(rows, DOMAIN rows)

KeyOf(r, cols) ==
    IF Len(cols) = 1 THEN r[cols[1]] ELSE [c \in DOMAIN cols |-> r[cols[c]]]

HasNullKey(r, cols) == \E c \in DOMAIN cols : r[cols[c]] = None

GroupByFirst(rows, cols) ==
    LET kept == {i \in DOMAIN rows : ~HasNullKey(rows[i], cols)}
        keys == {KeyOf(rows[i], cols) : i \in kept}
    IN  [k \in keys |->
            rows[CHOOSE i \in kept :
                    /\ KeyOf(rows[i], cols) = k
                    /\ \A j \in kept : KeyOf(rows[j], cols) = k => i <= j].Population]

\* join.groupby(cols)['Population'].sum(): groupby leaves out the rows with a
\* missing value in a key column (dropna=True is the default)
GroupBySum(rows, cols) ==
    LET kept == {i \in DOMAIN rows : ~HasNullKey(rows[i], cols)}
        keys == {KeyOf(rows[i], cols) : i \in kept}
    IN  [k \in keys |->
            SumPopulation(rows, {i \in kept : KeyOf(rows[i], cols) = k})]

NoMapping == [k \in {} |-> 0]

----------------------------------------------------------------------------
(* Control flow of the module-level script, lines 27-84 *)

Statements ==
    <<"read_counties", "read_wards", "to_crs_counties", "to_crs_wards", "sjoin",
      "total", "by_county", "by_county_ward", "myCRS", "subplots", "gridlines",
      "cax", "plot_wards", "county_outlines", "add_feature", "generate_handles",
      "legend">>

SuccSkipping(stmt) ==
    IF stmt = "read_wards" THEN "sjoin"
    ELSE IF stmt = Statements[Len(Statements)] THEN "done"
    ELSE Statements[IndexOf(Statements, stmt) + 1]

\* the statement that follows stmt in the file
Succ(stmt) ==
    IF stmt = Statements[Len(Statements)] THEN "done"
    ELSE Statements[IndexOf(Statements, stmt) + 1]

StageOf(stmt) ==
    CASE stmt \in {"read_counties", "read_wards"} -> "Loader"
      [] stmt \in {"to_crs_counties", "to_crs_wards"} -> "Reprojector"
      [] stmt = "sjoin" -> "Spatial Joiner"
      [] stmt \in {"total", "by_county", "by_county_ward"} -> "Aggregator"
      [] OTHER -> "Map Renderer"

NoError == [kind |-> None, stage |-> None]

\* statement stmt executes
Exec(stmt) == pc = stmt /\ log' = Append(log, stmt)

RaiseAndContinue(kind) ==
    /\ error' = [kind |-> kind, stage |-> StageOf(pc)]
    /\ pc' = Succ(pc)

\* an exception nothing catches ends the script
Raise(kind) ==
    /\ error' = [kind |-> kind, stage |-> StageOf(pc)]
    /\ pc' = "aborted"

Advance == pc' = Succ(pc) /\ error' = error

----------------------------------------------------------------------------
(* Inputs: the datasets on disk *)

\* ward records, their polygons given as ground cells
WardRecs ==
    { [cells |-> {0}, Ward |-> "A", Population |-> 1000],
      [cells |-> {1}, Ward |-> "B", Population |-> 3000],
      [cells |-> {1}, Ward |-> None, Population |-> 1000],
      [cells |-> {2}, Ward |-> "A", Population |-> 3000] }

CountyRecs ==
    { [cells |-> {0, 1}, CountyName |-> "X"],
      [cells |-> {1, 2}, CountyName |-> "Y"],
      [cells |-> {1}, CountyName |-> None] }

\* a ground record as it is stored in a file whose coordinates are in crs
WardRow(w, crs) ==
    [Ward |-> w.Ward, Population |-> w.Population,
     geometry |-> {Transform(x, WGS84, crs) : x \in w.cells}]

CountyRow(c, crs) ==
    [CountyName |-> c.CountyName,
     geometry |-> {Transform(x, WGS84, crs) : x \in c.cells}]

MissingFile == [exists |-> FALSE, crs |-> None, rows |-> <<>>]

WardFiles ==
    {MissingFile} \cup
    { [exists |-> TRUE, crs |-> c, rows |-> [i \in DOMAIN t |-> WardRow(t[i], c)]] :
        c \in {None, IrishGrid}, t \in SeqsUpTo(WardRecs, MaxWards) }

CountyFiles ==
    {MissingFile} \cup
    { [exists |-> TRUE, crs |-> c, rows |-> [i \in DOMAIN t |-> CountyRow(t[i], c)]] :
        c \in {None, WGS84, ITM}, t \in SeqsUpTo(CountyRecs, MaxCounties) }

----------------------------------------------------------------------------
(* State after the imports, the definition of generate_handles and plt.ion() *)

NoFigure ==
    [created |-> FALSE, projection |-> None, gridlines |-> FALSE, cax |-> FALSE,
     layers |-> <<>>, has_legend |-> FALSE, legend |-> <<>>]

NoFeature == [bound |-> FALSE, coords_crs |-> None, declared_crs |-> None, n |-> 0]

NoCall == [labels |-> <<>>, colors |-> <<>>, kw |-> [k \in {} |-> None]]

NoReturn == [returned |-> FALSE, raised |-> None, handles |-> <<>>]

ScriptStart ==
    /\ pc = Statements[1]
    /\ log = <<>>
    /\ error = NoError
    /\ counties = Unbound
    /\ wards = Unbound
    /\ join = Unbound
    /\ total = 0
    /\ by_county = NoMapping
    /\ by_county_ward = NoMapping
    /\ myCRS = None
    /\ fig = NoFigure
    /\ county_outlines = NoFeature
    /\ county_handles = <<>>

Init ==
    /\ ScriptStart
    /\ data_files \in [counties : CountyFiles, wards : WardFiles]
    /\ call = NoCall
    /\ ret = NoReturn

----------------------------------------------------------------------------
(* The statements of the script *)

\* line 27
ReadCounties ==
    /\ Exec("read_counties")
    /\ LET r == ReadFile(data_files.counties) IN
       IF r.raised # None
       THEN Raise(r.raised) /\ UNCHANGED counties
       ELSE Advance /\ counties' = r.value
    /\ UNCHANGED <<data_files, wards, join, total, by_county, by_county_ward,
                   myCRS, fig, county_outlines, county_handles, call, ret>>

\* line 28
ReadWards ==
    /\ Exec("read_wards")
    /\ LET r == ReadFile(data_files.wards) IN
       IF r.raised # None
       THEN Raise(r.raised) /\ UNCHANGED wards
       ELSE Advance /\ wards' = r.value
    /\ UNCHANGED <<data_files, counties, join, total, by_county, by_county_ward,
                   myCRS, fig, county_outlines, county_handles, call, ret>>

\* line 32
ReprojectCounties ==
    /\ Exec("to_crs_counties")
    /\ LET r == ToCrs(counties, ITM) IN
       IF r.raised # None
       THEN Raise(r.raised) /\ UNCHANGED counties
       ELSE Advance /\ counties' = r.value
    /\ UNCHANGED <<data_files, wards, join, total, by_county, by_county_ward,
                   myCRS, fig, county_outlines, county_handles, call, ret>>

\* line 33
ReprojectWards ==
    /\ Exec("to_crs_wards")
    /\ LET r == ToCrs(wards, ITM) IN
       IF r.raised # None
       THEN Raise(r.raised) /\ UNCHANGED wards
       ELSE Advance /\ wards' = r.value
    /\ UNCHANGED <<data_files, counties, join, total, by_county, by_county_ward,
                   myCRS, fig, county_outlines, county_handles, call, ret>>

\* line 41
SpatialJoin ==
    /\ Exec("sjoin")
    /\ Advance
    /\ join' = SJoin(wards, counties)
    /\ UNCHANGED <<data_files, counties, wards, total, by_county, by_county_ward,
                   myCRS, fig, county_outlines, county_handles, call, ret>>

\* line 44
Total ==
    /\ Exec("total")
    /\ Advance
    /\ total' = PopulationSum(join.rows)
    /\ UNCHANGED <<data_files, counties, wards, join, by_county, by_county_ward,
                   myCRS, fig, county_outlines, county_handles, call, ret>>

\* line 46
ByCounty ==
    /\ Exec("by_county")
    /\ Advance
    /\ by_county' = GroupBySum(join.rows, <<"CountyName">>)
    /\ UNCHANGED <<data_files, counties, wards, join, total, by_county_ward,
                   myCRS, fig, county_outlines, county_handles, call, ret>>

\* line 48
ByCountyWard ==
    /\ Exec("by_county_ward")
    /\ Advance
    /\ by_county_ward' = GroupBySum(join.rows, <<"CountyName", "Ward">>)
    /\ UNCHANGED <<data_files, counties, wards, join, total, by_county,
                   myCRS, fig, county_outlines, county_handles, call, ret>>

\* lines 50 and 56
MakeCRS ==
    /\ Exec("myCRS")
    /\ Advance
    /\ myCRS' = UTM29
    /\ UNCHANGED <<data_files, counties, wards, join, total, by_county,
                   by_county_ward, fig, county_outlines, county_handles, call, ret>>

\* line 59
Subplots ==
    /\ Exec("subplots")
    /\ Advance
    /\ fig' = [NoFigure EXCEPT !.created = TRUE, !.projection = myCRS]
    /\ UNCHANGED <<data_files, counties, wards, join, total, by_county,
                   by_county_ward, myCRS, county_outlines, county_handles, call, ret>>

\* lines 62-66
Gridlines ==
    /\ Exec("gridlines")
    /\ Advance
    /\ fig' = [fig EXCEPT !.gridlines = TRUE]
    /\ UNCHANGED <<data_files, counties, wards, join, total, by_county,
                   by_county_ward, myCRS, county_outlines, county_handles, call, ret>>

\* lines 69-70
ColorbarAxes ==
    /\ Exec("cax")
    /\ Advance
    /\ fig' = [fig EXCEPT !.cax = TRUE]
    /\ UNCHANGED <<data_files, counties, wards, join, total, by_county,
                   by_county_ward, myCRS, county_outlines, county_handles, call, ret>>

\* lines 73-74: the polygons are drawn with the coordinates they have, in the
\* data coordinates of the axes, which are those of the axes' projection
PlotWards ==
    /\ Exec("plot_wards")
    /\ Advance
    /\ fig' = [fig EXCEPT !.layers = Append(@,
                  [name |-> "wards", coords_crs |-> wards.crs,
                   declared_crs |-> fig.projection, n |-> Len(wards.rows)])]
    /\ UNCHANGED <<data_files, counties, wards, join, total, by_county,
                   by_county_ward, myCRS, county_outlines, county_handles, call, ret>>

\* line 77
CountyOutlines ==
    /\ Exec("county_outlines")
    /\ Advance
    /\ county_outlines' = [bound |-> TRUE, coords_crs |-> counties.crs,
                           declared_crs |-> myCRS, n |-> Len(counties.rows)]
    /\ UNCHANGED <<data_files, counties, wards, join, total, by_county,
                   by_county_ward, myCRS, fig, county_handles, call, ret>>

\* line 79
AddFeature ==
    /\ Exec("add_feature")
    /\ Advance
    /\ fig' = [fig EXCEPT !.layers = Append(@,
                  [name |-> "counties", coords_crs |-> county_outlines.coords_crs,
                   declared_crs |-> county_outlines.declared_crs,
                   n |-> county_outlines.n])]
    /\ UNCHANGED <<data_files, counties, wards, join, total, by_county,
                   by_county_ward, myCRS, county_outlines, county_handles, call, ret>>

\* line 81
CountyHandles ==
    /\ Exec("generate_handles")
    /\ LET r == CallGenerateHandles([labels |-> <<"">>, colors |-> <<"none">>,
                                     kw |-> [k \in {"edge"} |-> "r"]]) IN
       IF r.raised # None
       THEN Raise(r.raised) /\ UNCHANGED county_handles
       ELSE Advance /\ county_handles' = r.handles
    /\ UNCHANGED <<data_files, counties, wards, join, total, by_county,
                   by_county_ward, myCRS, fig, county_outlines, call, ret>>

\* line 84
Legend ==
    /\ Exec("legend")
    /\ Advance
    /\ fig' = [fig EXCEPT !.has_legend = TRUE,
                          !.legend = <<[handles |-> county_handles,
                                        labels |-> <<"County Boundaries">>]>>]
    /\ UNCHANGED <<data_files, counties, wards, join, total, by_county,
                   by_county_ward, myCRS, county_outlines, county_handles, call, ret>>

\* a call into the join or the plotting libraries raises for a reason outside
\* the data modelled here (a missing optional dependency, no usable backend)
LibraryCalls ==
    {"sjoin", "subplots", "gridlines", "cax", "plot_wards", "county_outlines",
     "add_feature", "legend"}

LibraryRaises ==
    /\ pc \in LibraryCalls
    /\ Exec(pc)
    /\ Raise("Exception")
    /\ UNCHANGED <<data_files, counties, wards, join, total, by_county,
                   by_county_ward, myCRS, fig, county_outlines, county_handles,
                   call, ret>>

Next ==
    \/ ReadCounties
    \/ ReadWards
    \/ ReprojectCounties
    \/ ReprojectWards
    \/ SpatialJoin
    \/ Total
    \/ ByCounty
    \/ ByCountyWard
    \/ MakeCRS
    \/ Subplots
    \/ Gridlines
    \/ ColorbarAxes
    \/ PlotWards
    \/ CountyOutlines
    \/ AddFeature
    \/ CountyHandles
    \/ Legend
    \/ LibraryRaises

Spec == Init /\ [][Next]_vars

----------------------------------------------------------------------------
(* Direct calls of generate_handles *)

Labels == {"a", "b"}
Colors == {"red", "blue"}
Edges == {"r", "k"}
Alphas == {0, 1}

Kwargs ==
    { [k \in {} |-> None] } \cup
    { [k \in {"edge"} |-> e] : e \in Edges } \cup
    { [alpha |-> a] : a \in Alphas } \cup
    { [edge |-> e, alpha |-> a] : e \in Edges, a \in Alphas }

InitCall ==
    /\ ScriptStart
    /\ data_files = [counties |-> MissingFile, wards |-> MissingFile]
    /\ call \in [labels : SeqsUpTo(Labels, MaxLabels),
                 colors : SeqsUpTo(Colors, MaxColors),
                 kw : Kwargs]
    /\ ret = NoReturn

Call ==
    /\ ~ret.returned
    /\ LET r == CallGenerateHandles(call) IN
       ret' = [returned |-> TRUE, raised |-> r.raised, handles |-> r.handles]
    /\ UNCHANGED <<call, pipeVars>>

NextCall == Call

SpecCall == InitCall /\ [][NextCall]_vars

----------------------------------------------------------------------------
(* Properties of generate_handles, checked under SpecCall *)

\* C1: with a non-empty colour list the call returns one handle per label, and
\* the i-th handle (from 0) is filled with colors[i mod len(colors)]; three
\* labels and the colours red, blue give the fills red, blue, red.
C1_HandlesCycleColors ==
    (ret.returned /\ call.colors # <<>>) =>
        /\ ret.raised = None
        /\ Len(ret.handles) = Len(call.labels)
        /\ \A i \in 0..(Len(call.labels) - 1) :
              ret.handles[i + 1].facecolor =
                  call.colors[(i % Len(call.colors)) + 1]
        /\ (Len(call.labels) = 3 /\ call.colors = <<"red", "blue">>) =>
              [i \in 1..3 |-> ret.handles[i].facecolor] = <<"red", "blue", "red">>

C1_Witness ==
    /\ ret.returned
    /\ Len(call.labels) = 3
    /\ call.colors = <<"red", "blue">>
    /\ Len(ret.handles) = 3
    /\ ret.handles[3].facecolor = "red"

\* C2, as claimed: a call with an empty colour list raises an error whatever
\* the labels are, the empty label list included.
C2_EmptyColorsAlwaysRaise ==
    (ret.returned /\ call.colors = <<>>) => ret.raised # None

\* C2, amended: with an empty colour list the call raises ZeroDivisionError and
\* returns nothing when there is at least one label, and returns the empty
\* list without an error when there is no label.
C2_EmptyColorsRaiseIffLabels ==
    (ret.returned /\ call.colors = <<>>) =>
        /\ ret.handles = <<>>
        /\ call.labels # <<>> => ret.raised = "ZeroDivisionError"
        /\ call.labels = <<>> => ret.raised = None

C2_Witness ==
    /\ ret.returned
    /\ call.colors = <<>>
    /\ Len(call.labels) = 2
    /\ ret.raised = "ZeroDivisionError"

\* C3: every handle produced has the edge colour and the opacity given in the
\* call, or 'k' and 1 when they are left out, whatever its index, label or fill.
C3_SharedEdgeAndAlpha ==
    (ret.returned /\ ret.raised = None) =>
        \A i \in DOMAIN ret.handles :
            /\ ret.handles[i].edgecolor =
                  (IF "edge" \in DOMAIN call.kw THEN call.kw.edge ELSE "k")
            /\ ret.handles[i].alpha =
                  (IF "alpha" \in DOMAIN call.kw THEN call.kw.alpha ELSE 1)

C3_Witness ==
    /\ ret.returned
    /\ DOMAIN call.kw = {}
    /\ Len(ret.handles) = 3
    /\ ret.handles[1].facecolor # ret.handles[2].facecolor
    /\ \A i \in 1..3 : ret.handles[i].edgecolor = "k" /\ ret.handles[i].alpha = 1

----------------------------------------------------------------------------
(* Properties of the script, checked under Spec *)

\* statement stmt has executed and has not raised
Done(stmt) ==
    \E i \in DOMAIN log : log[i] = stmt /\ (i < Len(log) \/ pc # "aborted")

Before(s, t) ==
    \E i, j \in DOMAIN log : i < j /\ log[i] = s /\ log[j] = t

MatchCount(i) ==
    Cardinality({j \in DOMAIN counties.rows :
                    Intersects(wards.rows[i].geometry, counties.rows[j].geometry)})

MatchingPairs ==
    {p \in (DOMAIN wards.rows) \X (DOMAIN counties.rows) :
        Intersects(wards.rows[p[1]].geometry, counties.rows[p[2]].geometry)}

\* C4: the joined table has one row per pair of a ward and a county that
\* matches it: a ward that matches no county has no row, a ward that matches
\* k counties has k rows, and the rows are those pairs, each once.
C4_JoinRowPerMatchingPair ==
    Done("sjoin") =>
        /\ Len(join.rows) = Cardinality(MatchingPairs)
        /\ \A i \in DOMAIN wards.rows :
              Cardinality({r \in DOMAIN join.rows : join.rows[r].index = i - 1})
                  = MatchCount(i)
        /\ {<<join.rows[r].index + 1, join.rows[r].index_right + 1>> :
               r \in DOMAIN join.rows} = MatchingPairs

C4_Witness ==
    /\ Done("sjoin")
    /\ \E i \in DOMAIN wards.rows : MatchCount(i) = 0
    /\ \E i \in DOMAIN wards.rows : MatchCount(i) = 2
    /\ Len(join.rows) = 2

MissingCounty == {r \in DOMAIN join.rows : join.rows[r].CountyName = None}

MissingCountyOrWard ==
    {r \in DOMAIN join.rows :
        join.rows[r].CountyName = None \/ join.rows[r].Ward = None}

\* C5, as claimed: the total equals the sum of the by-county values and the sum
\* of the by-county-and-ward values, rows with a missing key included.
C5_AggregatesAgree ==
    Done("by_county_ward") =>
        /\ total = SumValues(by_county)
        /\ SumValues(by_county) = SumValues(by_county_ward)

\* C5, amended: the by-county values sum to the total less the population of
\* the rows without a county name, the by-county-and-ward values sum to the
\* total less the population of the rows without a county name or without a
\* ward name; the three agree when no row lacks a grouping key.
C5_AggregatesAgreeUpToMissingKeys ==
    Done("by_county_ward") =>
        /\ total = SumValues(by_county) + SumPopulation(join.rows, MissingCounty)
        /\ total = SumValues(by_county_ward)
                      + SumPopulation(join.rows, MissingCountyOrWard)
        /\ MissingCountyOrWard = {} =>
              /\ total = SumValues(by_county)
              /\ total = SumValues(by_county_ward)

C5_Witness ==
    /\ Done("by_county_ward")
    /\ MissingCountyOrWard = {}
    /\ Len(join.rows) = 3
    /\ Cardinality(DOMAIN by_county) = 2
    /\ Cardinality(DOMAIN by_county_ward) = 3
    /\ total = 7000

\* the polygon of a file's record, as ground cells
Ground(f, i) == {Transform(x, f.crs, WGS84) : x \in f.rows[i].geometry}

\* two named wards of populations 1000 and 3000, one county "X" whose polygon
\* contains both ward polygons
Scenario ==
    /\ data_files.wards.exists /\ data_files.wards.crs # None
    /\ data_files.counties.exists /\ data_files.counties.crs # None
    /\ Len(data_files.wards.rows) = 2
    /\ Len(data_files.counties.rows) = 1
    /\ \E i, j \in 1..2 :
          /\ data_files.wards.rows[i].Population = 1000
          /\ data_files.wards.rows[j].Population = 3000
    /\ data_files.wards.rows[1].Ward # None
    /\ data_files.wards.rows[2].Ward # None
    /\ data_files.wards.rows[1].Ward # data_files.wards.rows[2].Ward
    /\ data_files.counties.rows[1].CountyName = "X"
    /\ \A i \in 1..2 :
          Ground(data_files.wards, i) \subseteq Ground(data_files.counties, 1)

\* C6: in that scenario, after load, reprojection, join and aggregation the
\* total is 4000, the by-county mapping is exactly X -> 4000 and the
\* by-county-and-ward mapping has two entries that sum to 4000.
C6_EndToEnd ==
    (Scenario /\ Done("by_county_ward")) =>
        /\ total = 4000
        /\ by_county = [k \in {"X"} |-> 4000]
        /\ Cardinality(DOMAIN by_county_ward) = 2
        /\ SumValues(by_county_ward) = 4000

C6_Witness ==
    /\ Scenario
    /\ data_files.wards.crs # data_files.counties.crs
    /\ Done("by_county_ward")
    /\ total = 4000

\* C7: reprojection keeps the record count, the attributes and the record
\* order, puts every geometry into the target system and tags the result with
\* it; reprojecting what is already in the target system changes nothing, so a
\* second reprojection to the same target is a no-op.
C7_ReprojectionPreservesAndIsIdempotent ==
    /\ Done("to_crs_counties") =>
          LET src == data_files.counties IN
          /\ counties.crs = ITM
          /\ Len(counties.rows) = Len(src.rows)
          /\ \A i \in DOMAIN src.rows :
                /\ counties.rows[i].CountyName = src.rows[i].CountyName
                /\ counties.rows[i].geometry =
                      {Transform(x, src.crs, ITM) : x \in src.rows[i].geometry}
          /\ src.crs = ITM => counties.rows = src.rows
          /\ ToCrs(counties, ITM) = [raised |-> None, value |-> counties]
    /\ Done("to_crs_wards") =>
          LET src == data_files.wards IN
          /\ wards.crs = ITM
          /\ Len(wards.rows) = Len(src.rows)
          /\ \A i \in DOMAIN src.rows :
                /\ wards.rows[i].Ward = src.rows[i].Ward
                /\ wards.rows[i].Population = src.rows[i].Population
                /\ wards.rows[i].geometry =
                      {Transform(x, src.crs, ITM) : x \in src.rows[i].geometry}
          /\ ToCrs(wards, ITM) = [raised |-> None, value |-> wards]

C7_Witness ==
    /\ Done("to_crs_counties")
    /\ Done("to_crs_wards")
    /\ data_files.counties.crs = ITM
    /\ data_files.wards.crs = IrishGrid
    /\ Len(counties.rows) = 2
    /\ Len(wards.rows) = 2
    /\ wards.rows[1] # wards.rows[2]
    /\ wards.rows # data_files.wards.rows

\* C8: no layer is drawn whose coordinates are in another system than the one
\* declared for it at draw time; such a mismatch ends the run with an error.
C8_NoLayerDrawnUnderMismatch ==
    \A i \in DOMAIN fig.layers :
        fig.layers[i].coords_crs = fig.layers[i].declared_crs

Stages == <<"Loader", "Reprojector", "Spatial Joiner", "Aggregator", "Map Renderer">>

StageRanks == [s \in DOMAIN Statements |-> IndexOf(Stages, StageOf(Statements[s]))]

StageRank(stmt) == StageRanks[IndexOf(Statements, stmt)]

\* C9: the stages run in the order Loader, Reprojector, Spatial Joiner,
\* Aggregator, Map Renderer (the stage never goes back from one statement to
\* the next), a stage begins only when every statement of the earlier stages
\* has run, and no statement runs twice; both collections are reprojected
\* before the join; the figure is drawn from the ward and county collections
\* only; and generate_handles is called once, after the county outlines are
\* added and before the legend is attached.
C9_StrictStageOrder ==
    /\ \A i \in 1..(Len(log) - 1) : StageRank(log[i]) <= StageRank(log[i + 1])
    /\ \A i, j \in DOMAIN log : i < j => log[i] # log[j]
    /\ log # <<>> =>
          \A k \in DOMAIN Statements :
              StageRanks[k] < StageRank(log[Len(log)]) =>
                  \E i \in DOMAIN log : log[i] = Statements[k]
    /\ (log # <<>> /\ pc \notin {"done", "aborted"}) =>
          StageRank(log[Len(log)]) <= StageRank(pc)
    /\ Done("sjoin") =>
          /\ Before("to_crs_counties", "sjoin")
          /\ Before("to_crs_wards", "sjoin")
          /\ counties.crs = ITM /\ wards.crs = ITM
    /\ Count(log, "generate_handles") <= 1
    /\ county_handles # <<>> =>
          /\ Before("add_feature", "generate_handles")
          /\ Len(fig.layers) = 2
    /\ fig.has_legend =>
          /\ Count(log, "generate_handles") = 1
          /\ Before("generate_handles", "legend")
          /\ fig.legend[1].handles = county_handles
          /\ [i \in 1..2 |-> fig.layers[i].n] =
                <<Len(wards.rows), Len(counties.rows)>>

C9_Witness ==
    /\ pc = "done"
    /\ log = Statements
    /\ fig.has_legend
    /\ Len(join.rows) = 3
    /\ Len(county_handles) = 1

\* C10: a failure ends the run where it happens: nothing executes after it,
\* the failed statement is not run again, and after a failure of the Loader,
\* the Reprojector or the Spatial Joiner there is no figure.
C10_FailureAborts ==
    /\ [](error # NoError =>
            /\ pc = "aborted"
            /\ log # <<>>
            /\ StageOf(log[Len(log)]) = error.stage
            /\ Count(log, log[Len(log)]) = 1
            /\ error.stage \in {"Loader", "Reprojector", "Spatial Joiner"} =>
                  /\ fig = NoFigure
                  /\ county_outlines = NoFeature
                  /\ county_handles = <<>>)
    /\ [][error = NoError]_vars

C10_Witness ==
    /\ error.stage = "Reprojector"
    /\ error.kind = "ValueError"
    /\ pc = "aborted"
    /\ counties.crs = ITM
    /\ log = <<"read_counties", "read_wards", "to_crs_counties", "to_crs_wards">>

====
